---- MODULE Spec2Model ----
(***************************************************************************)
(* JAdES demo: a PFX container is parsed into a certificate chain, a       *)
(* signing certificate and a private key (certificate-helper.ts); the      *)
(* RFC 5035 IssuerSerial of the signing certificate is built as an ASN.1   *)
(* tree (asn1-helper.ts); main() (app.ts) assembles the protected header,  *)
(* signs and prints the JWS.                                               *)
(*                                                                         *)
(* Representation.  A byte string (a node-forge "binary" string, a Buffer) *)
(* is a sequence of numbers 0..255.  A hex string is a sequence of hex     *)
(* digits 0..15.  Text that is only compared (names, header values) is a   *)
(* TLA+ string.  base64 text is a sequence of one-character strings.       *)
(***************************************************************************)
EXTENDS Integers, Sequences, FiniteSets, TLC

(***************************************************************************)
(* Bounds of the model.                                                    *)
(***************************************************************************)
\* longest issuance chain held by a PFX
MaxChain == 3
\* most attributes of an issuer name
MaxAttrs == 2
\* most bytes of a serial number
MaxSerialBytes == 3

(***************************************************************************)
(* node-forge constants used by the source.                                *)
(***************************************************************************)
\* forge.asn1.Class.UNIVERSAL
UNIVERSAL == 0
\* forge.asn1.Class.CONTEXT_SPECIFIC
CONTEXT_SPECIFIC == 128
\* forge.asn1.Type.INTEGER
INTEGER == 2
\* forge.asn1.Type.OCTETSTRING
OCTETSTRING == 4
\* forge.asn1.Type.OID
OID == 6
\* forge.asn1.Type.SEQUENCE
SEQUENCE == 16
\* forge.asn1.Type.SET
SET == 17
\* forge.asn1.Type.UTF8, the valueTagClass of the modelled attributes
UTF8 == 12
\* characters per line of the PEM body written by forge.pki.certificateToPem
PemLineLength == 64

(***************************************************************************)
(* JavaScript's undefined, one per kind of value so that TLC can compare   *)
(* it with the defined values of that kind: an object, a string, a byte    *)
(* string (no byte is negative).                                           *)
(***************************************************************************)
undefined == [undefined |-> TRUE]
undefinedName == "undefined"
undefinedValue == <<-1>>

(***************************************************************************)
(* Sequence helpers.                                                       *)
(***************************************************************************)
RECURSIVE Concat(_)
\* Array.prototype.join("") of a sequence of sequences
Concat(seqs) ==
  IF seqs = <<>> THEN <<>> ELSE Head(seqs) \o Concat(Tail(seqs))

Reverse(s) == [i \in 1..Len(s) |-> s[Len(s) + 1 - i]]

Range(s) == {s[i] : i \in 1..Len(s)}

RECURSIVE SeqsUpTo(_,_)
\* all sequences over S of length 0..n
SeqsUpTo(S, n) ==
  IF n = 0 THEN {<<>>}
  ELSE LET shorter == SeqsUpTo(S, n - 1)
       IN  shorter \cup {Append(s, x) : s \in {t \in shorter : Len(t) = n - 1}, x \in S}

\* all orders in which the elements of S can be encountered
EncounterOrders(S) ==
  {p \in [1..Cardinality(S) -> S] : \A x \in S : \E i \in 1..Cardinality(S) : p[i] = x}

(***************************************************************************)
(* forge.asn1 and forge.util as used by asn1-helper.ts.                    *)
(***************************************************************************)
\* forge.pki.oids restricted to names: the names with a registered OID
\* (dotted arcs).  "privateKeyUsagePeriod" is a name forge gives to an
\* attribute type without registering the way back from the name.
oids ==
  [n \in {"commonName", "countryName"} |->
     IF n = "commonName" THEN <<2, 5, 4, 3>> ELSE <<2, 5, 4, 6>>]

\* forge.asn1.create(tagClass, type, constructed, value)
asn1Create(tagClass, type, constructed, value) ==
  [tagClass |-> tagClass, type |-> type, constructed |-> constructed, value |-> value]

RECURSIVE Base128(_)
\* the base-128 digits of n, most significant first, as forge.asn1.oidToDer
\* writes an arc: every byte but the last has its high bit set
Base128(n) ==
  IF n < 128 THEN <<n>>
  ELSE [i \in 1..Len(Base128(n \div 128)) |->
          IF Base128(n \div 128)[i] < 128 THEN Base128(n \div 128)[i] + 128
          ELSE Base128(n \div 128)[i]] \o <<n % 128>>

\* forge.asn1.oidToDer(oid).getBytes()
oidToDer(oid) ==
  <<40 * oid[1] + oid[2]>> \o Concat([i \in 1..(Len(oid) - 2) |-> Base128(oid[i + 2])])

RECURSIVE Base256(_)
\* the bytes of a length, most significant first
Base256(n) == IF n < 256 THEN <<n>> ELSE Base256(n \div 256) \o <<n % 256>>

\* the DER length field of forge.asn1.toDer
DerLength(n) ==
  IF n <= 127 THEN <<n>> ELSE <<128 + Len(Base256(n))>> \o Base256(n)

\* forge.asn1.toDer writes an INTEGER without one redundant leading byte
IntegerContent(value) ==
  IF /\ Len(value) > 1
     /\ \/ value[1] = 0 /\ value[2] < 128
        \/ value[1] = 255 /\ value[2] >= 128
  THEN Tail(value) ELSE value

RECURSIVE toDer(_)
\* forge.asn1.toDer(obj): tag byte, definite length, content.  The class
\* bits (0 or 128) and the type (< 32) do not overlap, so "|" is a sum.
toDer(obj) ==
  LET b1 == obj.tagClass + obj.type + (IF obj.constructed THEN 32 ELSE 0)
      content ==
        IF obj.constructed
        THEN Concat([i \in 1..Len(obj.value) |-> toDer(obj.value[i])])
        ELSE IF obj.type = INTEGER /\ obj.tagClass = UNIVERSAL
             THEN IntegerContent(obj.value) ELSE obj.value
  IN  <<b1>> \o DerLength(Len(content)) \o content

Base64Alphabet ==
  <<"A","B","C","D","E","F","G","H","I","J","K","L","M","N","O","P",
    "Q","R","S","T","U","V","W","X","Y","Z","a","b","c","d","e","f",
    "g","h","i","j","k","l","m","n","o","p","q","r","s","t","u","v",
    "w","x","y","z","0","1","2","3","4","5","6","7","8","9","+","/">>

Base64UrlAlphabet ==
  [i \in 1..64 |-> IF i = 63 THEN "-" ELSE IF i = 64 THEN "_" ELSE Base64Alphabet[i]]

RECURSIVE Encode64With(_,_,_)
\* base64 of a byte string over an alphabet; pad is "=" or nothing
Encode64With(alphabet, pad, bytes) ==
  LET n == Len(bytes)
      b1 == bytes[1]
      b2 == IF n >= 2 THEN bytes[2] ELSE 0
      b3 == IF n >= 3 THEN bytes[3] ELSE 0
      c1 == alphabet[(b1 \div 4) + 1]
      c2 == alphabet[((b1 % 4) * 16 + (b2 \div 16)) + 1]
      c3 == alphabet[((b2 % 16) * 4 + (b3 \div 64)) + 1]
      c4 == alphabet[(b3 % 64) + 1]
  IN  IF n = 0 THEN <<>>
      ELSE IF n = 1 THEN <<c1, c2>> \o pad \o pad
      ELSE IF n = 2 THEN <<c1, c2, c3>> \o pad
      ELSE <<c1, c2, c3, c4>> \o Encode64With(alphabet, pad, SubSeq(bytes, 4, n))

\* forge.util.encode64(bytes)
encode64(bytes) == Encode64With(Base64Alphabet, <<"=">>, bytes)

\* Buffer.toString("base64url"): URL-safe alphabet, no padding
toBase64Url(bytes) == Encode64With(Base64UrlAlphabet, <<>>, bytes)

\* Buffer.from(hex, "hex"): one byte per pair of digits; a trailing single
\* digit is dropped.  toString("binary") keeps every byte as one character.
hexToBytes(hex) ==
  [i \in 1..(Len(hex) \div 2) |-> hex[2 * i - 1] * 16 + hex[2 * i]]

\* forge's ByteBuffer.toHex(): two digits per byte
bytesToHex(bytes) ==
  [i \in 1..(2 * Len(bytes)) |->
     IF i % 2 = 1 THEN bytes[(i + 1) \div 2] \div 16 ELSE bytes[i \div 2] % 16]

(***************************************************************************)
(* Certificates.  A name (issuer, subject) is its attributes and the hash  *)
(* forge computes over them; an attribute has a name (undefined when forge *)
(* knows no name for the attribute type), a value and the tag of its value.*)
(***************************************************************************)
Attribute(name, value) == [name |-> name, value |-> value, valueTagClass |-> UTF8]

Name(hash, attributes) == [hash |-> hash, attributes |-> attributes]

Certificate(subject, issuer, serialNumber) ==
  [subject |-> subject, issuer |-> issuer, serialNumber |-> serialNumber]

(***************************************************************************)
(* asn1-helper.ts                                                          *)
(***************************************************************************)
\* the filter of createIssuerAsn1: attributes with a name and a value
HasNameAndValue(attribute) ==
  attribute.name # undefinedName /\ attribute.value # undefinedValue

\* the attributes createIssuerAsn1 maps to RDNs
filteredAttributes(certificate) ==
  SelectSeq(certificate.issuer.attributes, HasNameAndValue)

\* createIssuerAsn1 throws "Attribute with unknown oid": some mapped
\* attribute's name has no entry in forge.pki.oids
throwsUnknownOid(certificate) ==
  \E i \in 1..Len(filteredAttributes(certificate)) :
     filteredAttributes(certificate)[i].name \notin DOMAIN oids

\* the SET( SEQUENCE( OID, value ) ) createIssuerAsn1 builds for one attribute
relativeDistinguishedName(attribute) ==
  asn1Create(UNIVERSAL, SET, TRUE,
    <<asn1Create(UNIVERSAL, SEQUENCE, TRUE,
        <<asn1Create(UNIVERSAL, OID, FALSE, oidToDer(oids[attribute.name])),
          asn1Create(UNIVERSAL, attribute.valueTagClass, FALSE, attribute.value)>>)>>)

\* Asn1Helper.createIssuerAsn1(certificate), when it does not throw
createIssuerAsn1(certificate) ==
  asn1Create(UNIVERSAL, SEQUENCE, TRUE,
    [i \in 1..Len(filteredAttributes(certificate)) |->
       relativeDistinguishedName(filteredAttributes(certificate)[i])])

\* Asn1Helper.createSerialNumberAsn1(certificate)
createSerialNumberAsn1(certificate) ==
  asn1Create(UNIVERSAL, INTEGER, FALSE, hexToBytes(certificate.serialNumber))

\* a faulty createIssuerSerialAsn1: the issuer tagged [0] instead of [4]
createIssuerSerialAsn1WrongTag(certificate) ==
  asn1Create(UNIVERSAL, SEQUENCE, TRUE,
    <<asn1Create(UNIVERSAL, SEQUENCE, TRUE,
        <<asn1Create(CONTEXT_SPECIFIC, 0, TRUE, <<createIssuerAsn1(certificate)>>)>>),
      createSerialNumberAsn1(certificate)>>)

\* Asn1Helper.createIssuerSerialAsn1(certificate), when it does not throw
createIssuerSerialAsn1(certificate) ==
  asn1Create(UNIVERSAL, SEQUENCE, TRUE,
    <<asn1Create(UNIVERSAL, SEQUENCE, TRUE,
        <<asn1Create(CONTEXT_SPECIFIC, OCTETSTRING, TRUE, <<createIssuerAsn1(certificate)>>)>>),
      createSerialNumberAsn1(certificate)>>)

\* Asn1Helper.encodeAsn1AsBase64(asn1Object)
encodeAsn1AsBase64(asn1Object) == encode64(toDer(asn1Object))

(***************************************************************************)
(* certificate-helper.ts                                                   *)
(***************************************************************************)
\* forge's cert.isIssuer(parent): cert's issuer is parent's subject (the
\* hashes of the two names are compared; no signature is checked)
isIssuer(cert, parent) == cert.issuer.hash = parent.subject.hash

\* the comparator handed to Array.prototype.sort in parsePfxBytes
compareCertificates(certA, certB) ==
  IF isIssuer(certB, certA) THEN 1
  ELSE IF isIssuer(certA, certB) THEN -1
  ELSE 0

(***************************************************************************)
(* Array.prototype.sort as Node's engine (V8) runs it on an array shorter   *)
(* than 64 elements: the leading run is found (and reversed when strictly  *)
(* descending), then every later element is placed by binary insertion.    *)
(* The comparator of parsePfxBytes is no total order (leaf and root of a   *)
(* three-certificate chain compare equal), so the language leaves the      *)
(* result to the engine; this is the engine the README's Node.js runs.     *)
(* Indices are 0-based as in the engine; a[k + 1] is its element k.        *)
(***************************************************************************)
RECURSIVE RunEnd(_,_,_)
\* the run's length, examining element idx next
RunEnd(a, idx, isDescending) ==
  IF idx >= Len(a) THEN Len(a)
  ELSE LET order == compareCertificates(a[idx + 1], a[idx])
       IN  IF (isDescending /\ order >= 0) \/ (~isDescending /\ order < 0)
           THEN idx
           ELSE RunEnd(a, idx + 1, isDescending)

CountAndMakeRun(a) ==
  LET isDescending == compareCertificates(a[2], a[1]) < 0
      runLength == RunEnd(a, 2, isDescending)
  IN  [runLength |-> runLength,
       array |-> IF isDescending
                 THEN Reverse(SubSeq(a, 1, runLength)) \o SubSeq(a, runLength + 1, Len(a))
                 ELSE a]

RECURSIVE BinarySearch(_,_,_,_)
\* where the pivot goes among the sorted elements left..right-1
BinarySearch(a, pivot, left, right) ==
  IF left >= right THEN left
  ELSE LET mid == left + ((right - left) \div 2)
       IN  IF compareCertificates(pivot, a[mid + 1]) < 0
           THEN BinarySearch(a, pivot, left, mid)
           ELSE BinarySearch(a, pivot, mid + 1, right)

RECURSIVE BinaryInsertionSort(_,_)
\* elements 0..start-1 are sorted; insert elements start..Len(a)-1
BinaryInsertionSort(a, start) ==
  IF start >= Len(a) THEN a
  ELSE LET pivot == a[start + 1]
           left == BinarySearch(a, pivot, 0, start)
       IN  BinaryInsertionSort(
             SubSeq(a, 1, left) \o <<pivot>> \o SubSeq(a, left + 1, start)
               \o SubSeq(a, start + 2, Len(a)),
             start + 1)

\* array.sort(compareCertificates)
sort(a) ==
  IF Len(a) < 2 THEN a
  ELSE BinaryInsertionSort(CountAndMakeRun(a).array, CountAndMakeRun(a).runLength)

\* CertificateHelper.getBags(pkcs12, bagType): the bags of that type, in
\* the order the container holds them; none gives the empty array
getBags(pkcs12, bagType) ==
  LET OfType(bag) == bag.type = bagType
  IN  SelectSeq(pkcs12.safeBags, OfType)

\* the certificateChain of parsePfxBytes: bags with a certificate, their
\* certificates, sorted
certificateChainOf(pkcs12) ==
  LET HasCert(bag) == bag.cert # undefined
      withCert == SelectSeq(getBags(pkcs12, "certBag"), HasCert)
  IN  sort([i \in 1..Len(withCert) |-> withCert[i].cert])

RECURSIVE findNotIssuing(_,_)
\* Array.prototype.find with the predicate of parsePfxBytes: the first
\* element of array that no certificate of chain names as its issuer, or
\* undefined
findNotIssuing(array, chain) ==
  IF array = <<>> THEN undefined
  ELSE IF ~ \E i \in 1..Len(chain) : isIssuer(chain[i], Head(array))
       THEN Head(array)
       ELSE findNotIssuing(Tail(array), chain)

\* the signingCertificate of parsePfxBytes
signingCertificateOf(chain) == findNotIssuing(chain, chain)

\* forge.asn1.toDer(forge.pki.certificateToAsn1(certificate)).getBytes():
\* the certificate's DER bytes, here the bytes of the modelled fields
certificateDerBytes(certificate) ==
  LET content == <<certificate.subject.hash, certificate.issuer.hash>>
                   \o hexToBytes(certificate.serialNumber)
  IN  <<UNIVERSAL + SEQUENCE + 32>> \o DerLength(Len(content)) \o content

RECURSIVE Chunks(_,_)
\* a text cut into lines of at most n characters
Chunks(text, n) ==
  IF Len(text) <= n THEN <<text>>
  ELSE <<SubSeq(text, 1, n)>> \o Chunks(SubSeq(text, n + 1, Len(text)), n)

\* forge.pki.certificateToPem(certificate).split("\r\n"): the framing
\* lines, the base64 body lines between them, and the empty last piece
certificatePemLines(certificate) ==
  <<<<"-", "-", "-", "-", "-", "BEGIN CERTIFICATE", "-", "-", "-", "-", "-">>>>
    \o Chunks(encode64(certificateDerBytes(certificate)), PemLineLength)
    \o <<<<"-", "-", "-", "-", "-", "END CERTIFICATE", "-", "-", "-", "-", "-">>, <<>>>>

\* CertificateHelper.getCertificateDer(certificate)
getCertificateDer(certificate) ==
  LET NotFraming(line) ==
        ~ (Len(line) >= 5 /\ SubSeq(line, 1, 5) = <<"-", "-", "-", "-", "-">>)
  IN  Concat(SelectSeq(certificatePemLines(certificate), NotFraming))

\* forge.md.sha256 over a byte string.  The digest is not computed: a
\* two-byte value that is a function of the bytes stands for it.
RECURSIVE ByteSum(_)
ByteSum(bytes) == IF bytes = <<>> THEN 0 ELSE Head(bytes) + ByteSum(Tail(bytes))

sha256(bytes) == <<ByteSum(bytes) % 256, Len(bytes) % 256>>

\* CertificateHelper.getCertificateThumbprint(certificate): the digest in hex
getCertificateThumbprint(certificate) ==
  bytesToHex(sha256(certificateDerBytes(certificate)))

(***************************************************************************)
(* app.ts: the protected header.                                           *)
(***************************************************************************)
RECURSIVE BeforeFirst(_,_)
\* text.split(separator)[0]
BeforeFirst(text, separator) ==
  IF text = <<>> \/ Head(text) = separator THEN <<>>
  ELSE <<Head(text)>> \o BeforeFirst(Tail(text), separator)

\* new Date().toISOString(): date and time, ".", milliseconds, "Z"
toISOString(now) == <<now.dateTime, ".", now.millis, "Z">>

\* a faulty header: sigT is announced in crit and not set
protectedHeaderWithoutSigT(parsed, kid, x5c, now) ==
  [key \in {"alg", "cty", "typ", "kid", "x5t#S256", "x5c", "crit"} |->
     CASE key = "alg" -> "RS256"
       [] key = "cty" -> "json"
       [] key = "typ" -> "jose+json"
       [] key = "kid" -> kid
       [] key = "x5t#S256" ->
            toBase64Url(hexToBytes(getCertificateThumbprint(parsed.signingCertificate)))
       [] key = "x5c" -> x5c
       [] key = "crit" -> <<"sigT">>]

\* the object literal handed to setProtectedHeader, key by key
protectedHeaderOf(parsed, kid, x5c, now) ==
  [key \in {"alg", "cty", "typ", "kid", "x5t#S256", "x5c", "sigT", "crit"} |->
     CASE key = "alg" -> "RS256"
       [] key = "cty" -> "json"
       [] key = "typ" -> "jose+json"
       [] key = "kid" -> kid
       [] key = "x5t#S256" ->
            toBase64Url(hexToBytes(getCertificateThumbprint(parsed.signingCertificate)))
       [] key = "x5c" -> x5c
       [] key = "sigT" -> BeforeFirst(toISOString(now), ".") \o <<"Z">>
       [] key = "crit" -> <<"sigT">>]

(***************************************************************************)
(* The inputs: the PFX container the environment names, and the clock.     *)
(***************************************************************************)
\* the name with hash k: one commonName attribute
PlainName(k) == Name(k, <<Attribute("commonName", <<64 + k>>)>>)

\* member i of an issuance chain of n certificates: 1 is the leaf, n the
\* root; the root is self-signed or issued by a certificate not held
ChainCertificate(i, n, selfSigned) ==
  Certificate(PlainName(i),
              IF i = n /\ selfSigned THEN PlainName(n) ELSE PlainName(i + 1),
              bytesToHex(<<i>>))

CertBag(cert) == [type |-> "certBag", cert |-> cert]

KeyBag(convertible) ==
  [type |-> "pkcs8ShroudedKeyBag", key |-> [convertible |-> convertible]]

\* containers holding an issuance chain of n certificates in every
\* encounter order, with or without a certificate bag that holds no
\* certificate, with or without a key bag, readable or not
ChainContainers(n) ==
  {[status |-> status,
    safeBags |-> emptyBag
                   \o [k \in 1..n |-> CertBag(ChainCertificate(order[k], n, selfSigned))]
                   \o keyBags] :
     status \in {"ok", "malformed", "wrongPassword"},
     emptyBag \in {<<>>, <<CertBag(undefined)>>},
     keyBags \in {<<>>, <<KeyBag(TRUE)>>, <<KeyBag(FALSE)>>},
     selfSigned \in BOOLEAN,
     order \in EncounterOrders(1..n)}

\* the issuer attributes a certificate can carry
IssuerAttributes ==
  {Attribute(name, value) :
     name \in {"commonName", "countryName", "privateKeyUsagePeriod", undefinedName},
     value \in {<<65>>, undefinedValue}}

\* the serial numbers a certificate can carry: the content bytes of its
\* INTEGER, which forge keeps in hex
SerialNumbers ==
  {bytesToHex(bytes) : bytes \in SeqsUpTo({0, 1, 128}, MaxSerialBytes) \ {<<>>}}

\* containers holding one certificate, issued by a certificate not held,
\* with every issuer name and serial number, and its key
SingleCertificateContainers ==
  {[status |-> "ok",
    safeBags |-> <<CertBag(Certificate(PlainName(1), Name(2, attributes), serialNumber)),
                   KeyBag(TRUE)>>] :
     attributes \in SeqsUpTo(IssuerAttributes, MaxAttrs),
     serialNumber \in SerialNumbers}

PfxContainers ==
  UNION {ChainContainers(n) : n \in 0..MaxChain} \cup SingleCertificateContainers

\* the instants new Date() can return
Instants ==
  {[dateTime |-> "2024-03-01T10:15:30", millis |-> "123"],
   [dateTime |-> "2024-12-31T23:59:59", millis |-> "000"]}

(***************************************************************************)
(* The run of main().                                                      *)
(***************************************************************************)
VARIABLES
  pc,                          \* where main() is
  pfx,                         \* the container read from CERTIFICATE_PATH
  parsedPfx,                   \* main's parsedPfx
  keyIdAsn1,                   \* main's keyIdAsn1
  keyIdBase64,                 \* main's keyIdBase64
  certificateChainDerEncoded,  \* main's certificateChainDerEncoded
  protectedHeader,             \* the header handed to setProtectedHeader
  jadesSignature,              \* main's jadesSignature
  output,                      \* what console.log has printed
  error,                       \* the error main() was rejected with
  started,                     \* history: the stages begun, in order
  completed                    \* history: the stages that returned, in order

vars ==
  <<pc, pfx, parsedPfx, keyIdAsn1, keyIdBase64, certificateChainDerEncoded,
    protectedHeader, jadesSignature, output, error, started, completed>>

Stages == <<"extract", "issuerSerial", "header", "sign">>

Init ==
  /\ pc = "start"
  /\ pfx \in PfxContainers
  /\ parsedPfx = undefined
  /\ keyIdAsn1 = undefined
  /\ keyIdBase64 = <<>>
  /\ certificateChainDerEncoded = <<>>
  /\ protectedHeader = undefined
  /\ jadesSignature = undefined
  /\ output = undefined
  /\ error = "none"
  /\ started = <<>>
  /\ completed = <<>>

\* a stage throws: main()'s promise is rejected and nothing later runs
Throw(stage, message) ==
  /\ pc' = "failed"
  /\ error' = message
  /\ started' = Append(started, stage)
  /\ UNCHANGED completed

Return(stage, next) ==
  /\ pc' = next
  /\ started' = Append(started, stage)
  /\ completed' = Append(completed, stage)
  /\ UNCHANGED error

\* what CertificateHelper.parsePfxBytes does with the container: the error
\* it throws, or "none" and the result
parsePfxBytes(pkcs12) ==
  LET privateKeyBags == getBags(pkcs12, "pkcs8ShroudedKeyBag")
      certificateChain == certificateChainOf(pkcs12)
  IN  IF pkcs12.status = "malformed" THEN [error |-> "MalformedContainer"]
      ELSE IF pkcs12.status = "wrongPassword" THEN [error |-> "InvalidPassword"]
      ELSE IF privateKeyBags = <<>> THEN [error |-> "TypeError"]
      ELSE IF ~ privateKeyBags[1].key.convertible THEN [error |-> "KeyConversion"]
      ELSE [error |-> "none",
            certificateChain |-> certificateChain,
            signingCertificate |-> signingCertificateOf(certificateChain),
            signingCertificatePrivateKey |-> [pkcs8 |-> privateKeyBags[1].key]]

\* app.ts 59-62
ParsePfx ==
  /\ pc = "start"
  /\ IF parsePfxBytes(pfx).error # "none"
     THEN /\ Throw("extract", parsePfxBytes(pfx).error)
          /\ UNCHANGED parsedPfx
     ELSE /\ Return("extract", "parsed")
          /\ parsedPfx' = parsePfxBytes(pfx)
  /\ UNCHANGED <<pfx, keyIdAsn1, keyIdBase64, certificateChainDerEncoded,
                 protectedHeader, jadesSignature, output>>

\* a faulty CreateKeyId: the unknown-OID error is caught and noted, and
\* main() goes on without a key id
CreateKeyIdSwallowingError ==
  /\ pc = "parsed"
  /\ IF parsedPfx.signingCertificate = undefined
     THEN /\ Throw("issuerSerial", "TypeError")
          /\ UNCHANGED <<keyIdAsn1, keyIdBase64, certificateChainDerEncoded>>
     ELSE IF throwsUnknownOid(parsedPfx.signingCertificate)
     THEN /\ pc' = "keyId"
          /\ error' = "Attribute with unknown oid"
          /\ started' = Append(started, "issuerSerial")
          /\ completed' = Append(completed, "issuerSerial")
          /\ certificateChainDerEncoded' =
               [i \in 1..Len(parsedPfx.certificateChain) |->
                  getCertificateDer(parsedPfx.certificateChain[i])]
          /\ UNCHANGED <<keyIdAsn1, keyIdBase64>>
     ELSE /\ Return("issuerSerial", "keyId")
          /\ keyIdAsn1' = createIssuerSerialAsn1(parsedPfx.signingCertificate)
          /\ keyIdBase64' = encodeAsn1AsBase64(keyIdAsn1')
          /\ certificateChainDerEncoded' =
               [i \in 1..Len(parsedPfx.certificateChain) |->
                  getCertificateDer(parsedPfx.certificateChain[i])]
  /\ UNCHANGED <<pfx, parsedPfx, protectedHeader, jadesSignature, output>>

\* app.ts 65-75
CreateKeyId ==
  /\ pc = "parsed"
  /\ IF parsedPfx.signingCertificate = undefined
     THEN /\ Throw("issuerSerial", "TypeError")
          /\ UNCHANGED <<keyIdAsn1, keyIdBase64, certificateChainDerEncoded>>
     ELSE IF throwsUnknownOid(parsedPfx.signingCertificate)
     THEN /\ Throw("issuerSerial", "Attribute with unknown oid")
          /\ UNCHANGED <<keyIdAsn1, keyIdBase64, certificateChainDerEncoded>>
     ELSE /\ Return("issuerSerial", "keyId")
          /\ keyIdAsn1' = createIssuerSerialAsn1(parsedPfx.signingCertificate)
          /\ keyIdBase64' = encodeAsn1AsBase64(keyIdAsn1')
          /\ certificateChainDerEncoded' =
               [i \in 1..Len(parsedPfx.certificateChain) |->
                  getCertificateDer(parsedPfx.certificateChain[i])]
  /\ UNCHANGED <<pfx, parsedPfx, protectedHeader, jadesSignature, output>>

\* app.ts 79-126
SetProtectedHeader ==
  /\ pc = "keyId"
  /\ \E now \in Instants :
       protectedHeader' =
         protectedHeaderOf(parsedPfx, keyIdBase64, certificateChainDerEncoded, now)
  /\ Return("header", "header")
  /\ UNCHANGED <<pfx, parsedPfx, keyIdAsn1, keyIdBase64, certificateChainDerEncoded,
                 jadesSignature, output>>

\* app.ts 127: the signer returns the JWS or throws
Sign ==
  /\ pc = "header"
  /\ \E signed \in BOOLEAN :
       IF signed
       THEN /\ Return("sign", "signed")
            /\ jadesSignature' =
                 [payload |-> "jsonToSign",
                  signatures |-> <<[protected |-> protectedHeader,
                                    signature |-> parsedPfx.signingCertificatePrivateKey]>>]
       ELSE /\ Throw("sign", "SigningError")
            /\ UNCHANGED jadesSignature
  /\ UNCHANGED <<pfx, parsedPfx, keyIdAsn1, keyIdBase64, certificateChainDerEncoded,
                 protectedHeader, output>>

\* app.ts 130-131
LogResult ==
  /\ pc = "signed"
  /\ output' = jadesSignature
  /\ pc' = "done"
  /\ UNCHANGED <<pfx, parsedPfx, keyIdAsn1, keyIdBase64, certificateChainDerEncoded,
                 protectedHeader, jadesSignature, error, started, completed>>

Next == ParsePfx \/ CreateKeyId \/ SetProtectedHeader \/ Sign \/ LogResult

Spec == Init /\ [][Next]_vars

(***************************************************************************)
(* Vocabulary of the properties.                                           *)
(***************************************************************************)
IsPrefix(s, t) == Len(s) <= Len(t) /\ SubSeq(t, 1, Len(s)) = s

\* parsePfxBytes has returned
Parsed == parsedPfx # undefined

\* createIssuerSerialAsn1 has returned
KeyIdBuilt == keyIdAsn1 # undefined

\* the issuer SEQUENCE and the serial INTEGER inside the built IssuerSerial
IssuerNode == keyIdAsn1.value[1].value[1].value[1]
SerialNode == keyIdAsn1.value[2]

\* the issuer attributes of the signing certificate, as the container holds them
InputAttributes == parsedPfx.signingCertificate.issuer.attributes

RECURSIVE HexValue(_)
\* the number a hex string writes
HexValue(hex) ==
  IF hex = <<>> THEN 0
  ELSE 16 * HexValue(SubSeq(hex, 1, Len(hex) - 1)) + hex[Len(hex)]

\* the minimal big-endian two's-complement bytes of a number >= 0
MinimalInteger(n) ==
  IF Base256(n)[1] >= 128 THEN <<0>> \o Base256(n) ELSE Base256(n)

(***************************************************************************)
(* C1. Chain ordering: whatever the order of the certificate bags, the     *)
(* certificateChain parsePfxBytes returns for an issuance chain is         *)
(* leaf-first, root-last: element i is issued by element i+1.              *)
(***************************************************************************)
ChainOrdering ==
  Parsed =>
    \A i \in 1..(Len(parsedPfx.certificateChain) - 1) :
       isIssuer(parsedPfx.certificateChain[i], parsedPfx.certificateChain[i + 1])

(***************************************************************************)
(* C2. Signing-certificate selection: for an issuance chain in any         *)
(* encounter order, signingCertificate is the chain element that issues no *)
(* other element of the chain (the leaf), sorted chain or not.             *)
(***************************************************************************)
SigningCertificateIsLeaf ==
  Parsed /\ parsedPfx.certificateChain # <<>> =>
    \E i \in 1..Len(parsedPfx.certificateChain) :
       /\ parsedPfx.signingCertificate = parsedPfx.certificateChain[i]
       /\ \A j \in 1..Len(parsedPfx.certificateChain) :
             j # i => ~ isIssuer(parsedPfx.certificateChain[j], parsedPfx.certificateChain[i])

(***************************************************************************)
(* C3. x5c order: x5c has one entry per chain element, in chain order,     *)
(* leaf first, so x5c[0] encodes the signing certificate that kid and      *)
(* x5t#S256 are derived from.                                              *)
(***************************************************************************)
X5cLeafFirst ==
  protectedHeader # undefined =>
    /\ Len(protectedHeader["x5c"]) = Len(parsedPfx.certificateChain)
    /\ \A i \in 1..Len(parsedPfx.certificateChain) :
          protectedHeader["x5c"][i] = getCertificateDer(parsedPfx.certificateChain[i])
    /\ protectedHeader["x5c"][1] = getCertificateDer(parsedPfx.signingCertificate)

(***************************************************************************)
(* C4. RDN completeness: the issuer SEQUENCE holds, in input order, one    *)
(* SET( SEQUENCE( OID, value ) ) for every issuer attribute on input, with *)
(* its OID and value bytes; an attribute is left out only if it lacks both *)
(* a name and a value.                                                     *)
(***************************************************************************)
RdnCompleteness ==
  KeyIdBuilt =>
    LET LacksBoth(a) == a.name = undefinedName /\ a.value = undefinedValue
        HasEither(a) == ~ LacksBoth(a)
        expected == SelectSeq(InputAttributes, HasEither)
    IN  /\ Len(IssuerNode.value) = Len(expected)
        /\ \A i \in 1..Len(expected) :
              /\ IssuerNode.value[i].type = SET
              /\ Len(IssuerNode.value[i].value) = 1
              /\ IssuerNode.value[i].value[1].type = SEQUENCE
              /\ IssuerNode.value[i].value[1].value[1].value = oidToDer(oids[expected[i].name])
              /\ IssuerNode.value[i].value[1].value[2].value = expected[i].value

(***************************************************************************)
(* C5. Unknown OID is an error, never a partial result: if an issuer       *)
(* attribute of the signing certificate has an OID or name absent from the *)
(* OID registry, createIssuerSerialAsn1 fails with the unknown-OID error   *)
(* and no IssuerSerial (and no kid) is produced.                           *)
(***************************************************************************)
UnknownOidIsAnError ==
  (/\ Parsed
   /\ parsedPfx.signingCertificate # undefined
   /\ \E i \in 1..Len(InputAttributes) : InputAttributes[i].name \notin DOMAIN oids)
  => /\ ~ KeyIdBuilt
     /\ keyIdBase64 = <<>>
     /\ pc # "parsed" => error = "Attribute with unknown oid"

(***************************************************************************)
(* C6. Serial-number encoding: the content bytes of the INTEGER node are   *)
(* the minimal big-endian two's-complement bytes of the number the hex     *)
(* serial writes: no leading zero byte unless the next byte has its high   *)
(* bit set, a leading zero byte where the value would otherwise read as    *)
(* negative, and no hex digit lost.                                        *)
(***************************************************************************)
SerialNumberMinimal ==
  KeyIdBuilt =>
    SerialNode.value = MinimalInteger(HexValue(parsedPfx.signingCertificate.serialNumber))

(***************************************************************************)
(* C7. IssuerSerial shape: a constructed UNIVERSAL SEQUENCE of exactly two *)
(* children: a UNIVERSAL SEQUENCE with exactly one child, a constructed    *)
(* CONTEXT_SPECIFIC node with tag number 4 whose only child is the issuer  *)
(* SEQUENCE; then the UNIVERSAL primitive INTEGER serial-number node.      *)
(***************************************************************************)
IssuerSerialShape ==
  KeyIdBuilt =>
    /\ keyIdAsn1.tagClass = UNIVERSAL /\ keyIdAsn1.type = 16 /\ keyIdAsn1.constructed
    /\ Len(keyIdAsn1.value) = 2
    /\ keyIdAsn1.value[1].tagClass = UNIVERSAL
    /\ keyIdAsn1.value[1].type = 16
    /\ keyIdAsn1.value[1].constructed
    /\ Len(keyIdAsn1.value[1].value) = 1
    /\ keyIdAsn1.value[1].value[1].tagClass = CONTEXT_SPECIFIC
    /\ keyIdAsn1.value[1].value[1].type = 4
    /\ keyIdAsn1.value[1].value[1].constructed
    /\ Len(keyIdAsn1.value[1].value[1].value) = 1
    /\ IssuerNode = createIssuerAsn1(parsedPfx.signingCertificate)
    /\ IssuerNode.tagClass = UNIVERSAL /\ IssuerNode.type = 16 /\ IssuerNode.constructed
    /\ SerialNode.tagClass = UNIVERSAL /\ SerialNode.type = 2 /\ ~ SerialNode.constructed
    /\ SerialNode = createSerialNumberAsn1(parsedPfx.signingCertificate)

\* an IssuerSerial was built for a certificate whose issuer has an RDN
IssuerSerialBuilt ==
  KeyIdBuilt /\ Len(IssuerNode.value) >= 1 /\ Len(SerialNode.value) >= 1

(***************************************************************************)
(* C8, as stated. Header completeness: for a 2-certificate chain the       *)
(* protected header has exactly seven keys, all of them documented.        *)
(***************************************************************************)
HeaderHasSevenKeys ==
  protectedHeader # undefined /\ Len(parsedPfx.certificateChain) = 2 =>
    /\ Cardinality(DOMAIN protectedHeader) = 7
    /\ DOMAIN protectedHeader \subseteq
         {"alg", "cty", "typ", "kid", "x5t#S256", "x5c", "sigT", "crit"}

(***************************************************************************)
(* C8, amended. Header completeness: for a 2-certificate chain the         *)
(* protected header has exactly the eight documented keys alg, cty, typ,   *)
(* kid, x5t#S256, x5c, sigT, crit and no other.                            *)
(***************************************************************************)
HeaderHasEightKeys ==
  protectedHeader # undefined /\ Len(parsedPfx.certificateChain) = 2 =>
    /\ DOMAIN protectedHeader =
         {"alg", "cty", "typ", "kid", "x5t#S256", "x5c", "sigT", "crit"}
    /\ Cardinality(DOMAIN protectedHeader) = 8

\* the header of a 2-certificate chain has been assembled
TwoCertificateHeader ==
  protectedHeader # undefined /\ Len(parsedPfx.certificateChain) = 2

(***************************************************************************)
(* C9. All-or-nothing pipeline: the JWS is printed only after extraction,  *)
(* IssuerSerial construction, header assembly and signing have each        *)
(* completed, in that order; when a stage fails the run ends with an       *)
(* error, prints nothing, and no later stage is started.                   *)
(***************************************************************************)
AllOrNothing ==
  /\ IsPrefix(started, Stages)
  /\ IsPrefix(completed, started)
  /\ output # undefined => completed = Stages /\ error = "none"
  /\ error = "none" => started = completed
  /\ error # "none" =>
       /\ pc = "failed"
       /\ output = undefined
       /\ jadesSignature = undefined
       /\ Len(started) = Len(completed) + 1

\* a run that got as far as signing and failed there
FailedAtSigning ==
  error = "SigningError" /\ completed = <<"extract", "issuerSerial", "header">>

(***************************************************************************)
(* C10. Signing certificate is always defined: when the PFX holds at least *)
(* one certificate and parsePfxBytes returns, signingCertificate is a      *)
(* defined element of certificateChain, a singleton self-signed chain      *)
(* included.                                                               *)
(***************************************************************************)
SigningCertificateDefined ==
  Parsed /\ Len(parsedPfx.certificateChain) >= 1 =>
    /\ parsedPfx.signingCertificate # undefined
    /\ parsedPfx.signingCertificate \in Range(parsedPfx.certificateChain)

====
